---- MODULE Spec2Model ----
(***************************************************************************)
(* The thread-confined CUDA context executor of gorgonia.org/cu (type Ctx, *)
(* ctx.go, and its debug-build constructor and Close, ctx_debug.go).       *)
(*                                                                         *)
(* One Ctx is modelled together with the goroutines that use it: the       *)
(* constructor, up to MaxRun invocations of Run, up to MaxDo callers of Do *)
(* and up to MaxClose callers of Close, at most MaxGoroutines of them in   *)
(* one run.  No field of the Ctx is protected by a lock in the source, so  *)
(* a step holds at most one read or write of a shared field or one channel *)
(* operation, together with the local statements around it.  Goroutines of *)
(* one sort are interchangeable and are numbered in the order they begin.  *)
(*                                                                         *)
(* Go semantics used: both channels are unbuffered (a send and a receive   *)
(* meet in one step); a send on or a receive from a nil channel blocks     *)
(* forever; a receive from a closed channel yields the zero value; a send  *)
(* on a closed channel, a close of a nil or of a closed channel and a call *)
(* of a nil func panic; an unrecovered panic ends the whole program.       *)
(***************************************************************************)
EXTENDS Integers, Sequences, FiniteSets, TLC

\* Bounds of the model: the number of goroutines of each sort.
MaxDo == 2
MaxClose == 2
MaxRun == 2
\* The number of goroutines that use the Ctx in one run of the program.
MaxGoroutines == 4

Callers == 1..MaxDo
Closers == 1..MaxClose
Loops == 1..MaxRun

\* An error value: 0 is nil, Err(c) is the error that caller c's closure returns.
NilErr == 0
Err(c) == c
\* The func() error values a run loop can hold: caller c's closure is c, and
\* the zero value read from the closed work channel is the nil func.
NilFunc == 0
\* Errors of the native layer.
NativeErr == -1

VARIABLES
    kind,        \* "auto": built by NewContext, which starts Run itself;
                 \* "manual": built by NewManuallyManagedContext or CtxFromCUContext
    ctorPc,      \* the constructor's position
    handle,      \* ctx.CUContext.ctx: "empty" or "valid"
    work,        \* the field ctx.work: "nil" or "ch"
    errChan,     \* the field ctx.errChan: "nil" or "ch"
    workClosed,  \* whether the work channel has been closed
    errClosed,   \* whether the result channel has been closed
    panic,       \* "none", or the panic that ended the program
    runPc,       \* each Run invocation's position
    runArg,      \* Run's parameter errChan: "nil" or "ch"
    argClosed,   \* whether Run's parameter channel has been closed
    waitRes,     \* what the goroutine receiving from Run's parameter channel got
    runRet,      \* Run's return value
    current,     \* whether SetCurrentContext succeeded on the loop's thread
    runWorkCh,   \* the value of ctx.work the select statement evaluated
    runErrCh,    \* the value of ctx.errChan the send statement evaluated
    runW,        \* the func received from the work channel
    runRes,      \* the error w() returned
    doPc,        \* each Do call's position
    doWorkCh,    \* the value of ctx.work Do evaluated
    doErrCh,     \* the value of ctx.errChan Do evaluated
    doRet,       \* Do's return value
    fnRes,       \* the error the caller's closure returns
    sendq,       \* the Do calls blocked at the send on the work channel, in
                 \* the order they blocked (the channel's queue of senders)
    closePc,     \* each Close call's position
    closeErr,    \* Close's local err, which it returns
    \* History variables (no code reads them).
    log,         \* the closures in the order they started executing
    recvOrder,   \* the closures in the order run loops received them
    executing,   \* the closures that have been called and have not returned
    doAfterClose,    \* the Do call began after some Close had returned
    closeAfterClose, \* the Close call began after some Close had returned
    closeOverlap,    \* two Close calls have overlapped in time
    destroyCount     \* the number of cuCtxDestroy calls made

ctxVars == <<handle, work, errChan, workClosed, errClosed>>
ctorVars == <<kind, ctorPc>>
runVars == <<runPc, runArg, argClosed, waitRes, runRet, current, runWorkCh,
             runErrCh, runW, runRes>>
doVars == <<doPc, doWorkCh, doErrCh, doRet, fnRes, sendq>>
closeVars == <<closePc, closeErr>>
histVars == <<log, recvOrder, executing, doAfterClose, closeAfterClose, closeOverlap,
              destroyCount>>
vars == <<ctorVars, ctxVars, panic, runVars, doVars, closeVars, histVars>>

\* The goroutines that have begun to use the Ctx.
Started ==
    Cardinality({l \in Loops : runPc[l] # "idle"})
    + Cardinality({c \in Callers : doPc[c] # "idle"})
    + Cardinality({k \in Closers : closePc[k] # "idle"})

\* The sequence q without its element c.
Remove(q, c) == SelectSeq(q, LAMBDA x : x # c)

\* ctx.done is declared in the struct and never made: newContext leaves it nil.
done == "nil"

Init ==
    /\ kind \in {"auto", "manual"}
    /\ ctorPc = "create"
    /\ handle = "empty" /\ work = "nil" /\ errChan = "nil"
    /\ workClosed = FALSE /\ errClosed = FALSE
    /\ panic = "none"
    /\ runPc = [l \in Loops |-> "idle"]
    /\ runArg = [l \in Loops |-> "nil"]
    /\ argClosed = [l \in Loops |-> FALSE]
    /\ waitRes = [l \in Loops |-> "none"]
    /\ runRet = [l \in Loops |-> "none"]
    /\ current = [l \in Loops |-> FALSE]
    /\ runWorkCh = [l \in Loops |-> "unread"]
    /\ runErrCh = [l \in Loops |-> "unread"]
    /\ runW = [l \in Loops |-> NilFunc]
    /\ runRes = [l \in Loops |-> NilErr]
    /\ doPc = [c \in Callers |-> "idle"]
    /\ doWorkCh = [c \in Callers |-> "unread"]
    /\ doErrCh = [c \in Callers |-> "unread"]
    /\ doRet = [c \in Callers |-> NilErr]
    /\ fnRes = [c \in Callers |-> NilErr]
    /\ sendq = <<>>
    /\ closePc = [k \in Closers |-> "idle"]
    /\ closeErr = [k \in Closers |-> NilErr]
    /\ log = <<>> /\ recvOrder = <<>> /\ executing = {}
    /\ doAfterClose = [c \in Callers |-> FALSE]
    /\ closeAfterClose = [k \in Closers |-> FALSE]
    /\ closeOverlap = FALSE
    /\ destroyCount = 0

(***************************************************************************)
(* newContext and the three constructors                                   *)
(***************************************************************************)

\* The Ctx literal of newContext: the handle and two fresh unbuffered channels.
newContext ==
    /\ handle' = "valid"
    /\ work' = "ch"
    /\ errChan' = "ch"
    /\ UNCHANGED <<workClosed, errClosed>>

\* NewContext up to its go statement: cuCtxCreate, newContext, then
\* go ctx.Run(errChan) with a fresh channel.  Run's first statement,
\* runtime.LockOSThread(), is part of its start.
NewContext(ok) ==
    /\ panic = "none" /\ kind = "auto" /\ ctorPc = "create"
    /\ IF ok
       THEN /\ newContext
            /\ ctorPc' = "wait"
            /\ runPc' = [runPc EXCEPT ![1] = "setcurrent"]
            /\ runArg' = [runArg EXCEPT ![1] = "ch"]
            /\ waitRes' = [waitRes EXCEPT ![1] = "pending"]
            /\ UNCHANGED panic
       ELSE /\ panic' = "cuCtxCreate"
            /\ UNCHANGED <<ctxVars, ctorPc, runPc, runArg, waitRes>>
    /\ UNCHANGED <<kind, argClosed, runRet, current, runWorkCh, runErrCh, runW,
                   runRes, doVars, closeVars, histVars>>

\* A NewContext that returns the Ctx without receiving from errChan.
MutNewContextReturn ==
    /\ panic = "none" /\ kind = "auto" /\ ctorPc = "wait"
    /\ ctorPc' = "returned"
    /\ UNCHANGED <<kind, ctxVars, panic, runVars, doVars, closeVars, histVars>>

\* if err := <-errChan; err != nil { panic(err) }; return ctx.  The receive
\* has either met Run's send of the error (RunReport) or finds the channel
\* closed and yields nil.
NewContextReturn ==
    /\ panic = "none" /\ kind = "auto" /\ ctorPc = "wait"
    /\ waitRes[1] = "err" \/ (waitRes[1] = "pending" /\ argClosed[1])
    /\ IF waitRes[1] = "err"
       THEN panic' = "activation" /\ UNCHANGED <<ctorPc, waitRes>>
       ELSE /\ ctorPc' = "returned"
            /\ waitRes' = [waitRes EXCEPT ![1] = "nil"]
            /\ UNCHANGED panic
    /\ UNCHANGED <<kind, ctxVars, runPc, runArg, argClosed, runRet, current,
                   runWorkCh, runErrCh, runW, runRes, doVars, closeVars, histVars>>

NewManuallyManagedContext(ok) ==
    /\ panic = "none" /\ kind = "manual" /\ ctorPc = "create"
    /\ IF ok
       THEN newContext /\ ctorPc' = "returned" /\ UNCHANGED panic
       ELSE panic' = "cuCtxCreate" /\ UNCHANGED <<ctxVars, ctorPc>>
    /\ UNCHANGED <<kind, runVars, doVars, closeVars, histVars>>

\* CtxFromCUContext wraps a context the caller has created.
CtxFromCUContext ==
    /\ panic = "none" /\ kind = "manual" /\ ctorPc = "create"
    /\ newContext /\ ctorPc' = "returned"
    /\ UNCHANGED <<kind, panic, runVars, doVars, closeVars, histVars>>

(***************************************************************************)
(* Run                                                                     *)
(***************************************************************************)

\* A caller that holds the Ctx invokes Run(errChan), errChan nil or a fresh
\* channel the caller then receives from (the two modes of Run's comment).
\* That receive is modelled where it takes Run's error (RunReport); the nil
\* it yields once Run has closed the channel changes nothing of the Ctx.
\* Run invocations are numbered in the order they are made.
Run(l, arg) ==
    /\ panic = "none" /\ ctorPc = "returned"
    /\ runPc[l] = "idle" /\ Started < MaxGoroutines
    /\ \A m \in Loops : m < l => runPc[m] # "idle"
    /\ runPc' = [runPc EXCEPT ![l] = "setcurrent"]
    /\ runArg' = [runArg EXCEPT ![l] = arg]
    /\ waitRes' = [waitRes EXCEPT ![l] = IF arg = "nil" THEN "none" ELSE "pending"]
    /\ UNCHANGED <<ctorVars, ctxVars, panic, argClosed, runRet, current, runWorkCh,
                   runErrCh, runW, runRes, doVars, closeVars, histVars>>

\* A Run that does not test SetCurrentContext's result.
MutAfterSetCurrent(ok, arg) == "closeArg"

\* Where Run goes after SetCurrentContext.
AfterSetCurrent(ok, arg) ==
    IF ok THEN "closeArg" ELSE IF arg # "nil" THEN "report" ELSE "returned"

\* SetCurrentContext(ctx.CUContext) and the test of its result.
RunSetCurrent(l, ok) ==
    /\ panic = "none" /\ runPc[l] = "setcurrent"
    /\ current' = [current EXCEPT ![l] = ok]
    /\ runPc' = [runPc EXCEPT ![l] = AfterSetCurrent(ok, runArg[l])]
    /\ runRet' = [runRet EXCEPT ![l] =
                    IF ~ok /\ runArg[l] = "nil" THEN "err" ELSE @]
    /\ UNCHANGED <<ctorVars, ctxVars, panic, runArg, argClosed, waitRes, runWorkCh,
                   runErrCh, runW, runRes, doVars, closeVars, histVars>>

\* errChan <- err meets the receive of the goroutine that started Run, and
\* Run returns nil.
RunReport(l) ==
    /\ panic = "none" /\ runPc[l] = "report"
    /\ waitRes[l] = "pending" /\ ~argClosed[l]
    /\ waitRes' = [waitRes EXCEPT ![l] = "err"]
    /\ runPc' = [runPc EXCEPT ![l] = "returned"]
    /\ runRet' = [runRet EXCEPT ![l] = "nil"]
    /\ UNCHANGED <<ctorVars, ctxVars, panic, runArg, argClosed, current, runWorkCh,
                   runErrCh, runW, runRes, doVars, closeVars, histVars>>

\* close(errChan) on Run's parameter.
RunCloseArg(l) ==
    /\ panic = "none" /\ runPc[l] = "closeArg"
    /\ IF runArg[l] = "nil"
       THEN panic' = "Run: close of nil channel" /\ UNCHANGED <<argClosed, runPc>>
       ELSE /\ argClosed' = [argClosed EXCEPT ![l] = TRUE]
            /\ runPc' = [runPc EXCEPT ![l] = "top"]
            /\ UNCHANGED panic
    /\ UNCHANGED <<ctorVars, ctxVars, runArg, waitRes, runRet, current, runWorkCh,
                   runErrCh, runW, runRes, doVars, closeVars, histVars>>


\* The select statement evaluates its channel operands ctx.work and ctx.done.
RunSelectRead(l) ==
    /\ panic = "none" /\ runPc[l] = "top"
    /\ runWorkCh' = [runWorkCh EXCEPT ![l] = work]
    /\ runPc' = [runPc EXCEPT ![l] = "select"]
    /\ UNCHANGED <<ctorVars, ctxVars, panic, runArg, argClosed, waitRes, runRet,
                   current, runErrCh, runW, runRes, doVars, closeVars, histVars>>

\* The cases of the select that can proceed: -1 is <-ctx.done, 0 the receive
\* of the zero value from the closed work channel, c > 0 the receive that
\* meets caller c's send.
DoneCase == -1
ClosedCase == 0
ReadyCases(l) ==
    (IF done # "nil" THEN {DoneCase} ELSE {})
    \cup (IF runWorkCh[l] = "ch" /\ workClosed THEN {ClosedCase} ELSE {})
    \cup {c \in Callers : /\ runWorkCh[l] = "ch" /\ ~workClosed
                          /\ doPc[c] = "sendWork" /\ doWorkCh[c] = "ch"}

\* One round of the select: break out of the loop, UnlockOSThread and return
\* nil on done; otherwise w := <-ctx.work.
RunSelect(l) ==
    /\ panic = "none" /\ runPc[l] = "select"
    /\ \E cs \in ReadyCases(l) :
        IF cs = DoneCase
        THEN /\ runPc' = [runPc EXCEPT ![l] = "returned"]
             /\ runRet' = [runRet EXCEPT ![l] = "nil"]
             /\ UNCHANGED <<runW, doPc, doWorkCh, sendq, recvOrder>>
        ELSE /\ runPc' = [runPc EXCEPT ![l] = "call"]
             /\ runW' = [runW EXCEPT ![l] = cs]
             /\ doPc' = [c \in Callers |-> IF c = cs THEN "sent" ELSE doPc[c]]
             /\ doWorkCh' = [c \in Callers |-> IF c = cs THEN "unread" ELSE doWorkCh[c]]
             /\ sendq' = Remove(sendq, cs)
             /\ recvOrder' = IF cs = ClosedCase THEN recvOrder
                             ELSE Append(recvOrder, cs)
             /\ UNCHANGED runRet
    /\ runWorkCh' = [runWorkCh EXCEPT ![l] = "unread"]
    /\ UNCHANGED <<ctorVars, ctxVars, panic, runArg, argClosed, waitRes, current,
                   runErrCh, runRes, doErrCh, doRet, fnRes,
                   closeVars, log, executing, doAfterClose, closeAfterClose,
                   closeOverlap, destroyCount>>

\* A run loop that starts the closure and goes back to the select without
\* waiting for it (go w()).
MutRunCall(l, early) ==
    /\ panic = "none" /\ runPc[l] = "call" /\ runW[l] # NilFunc
    /\ runPc' = [runPc EXCEPT ![l] = "top"]
    /\ log' = Append(log, runW[l])
    /\ executing' = executing \cup {runW[l]}
    /\ UNCHANGED <<ctorVars, ctxVars, panic, runArg, argClosed, waitRes, runRet,
                   current, runWorkCh, runErrCh, runW, runRes, doVars, closeVars,
                   recvOrder, doAfterClose, closeAfterClose, closeOverlap,
                   destroyCount>>

\* ctx.errChan <- w(), first part: w is called.  Go leaves open whether the
\* operand ctx.errChan is read before or after the call; early says which.
RunCall(l, early) ==
    /\ panic = "none" /\ runPc[l] = "call"
    /\ IF runW[l] = NilFunc
       THEN /\ panic' = "Run: call of nil func"
            /\ UNCHANGED <<runPc, runErrCh, log, executing>>
       ELSE /\ runPc' = [runPc EXCEPT ![l] = "incall"]
            /\ runErrCh' = [runErrCh EXCEPT ![l] = IF early THEN errChan ELSE "unread"]
            /\ log' = Append(log, runW[l])
            /\ executing' = executing \cup {runW[l]}
            /\ UNCHANGED panic
    /\ UNCHANGED <<ctorVars, ctxVars, runArg, argClosed, waitRes, runRet, current,
                   runWorkCh, runW, runRes, doVars, closeVars, recvOrder, doAfterClose,
                   closeAfterClose, closeOverlap, destroyCount>>

\* A run loop that drops the closure's error and posts nil.
MutClosureResult(c) == NilErr

\* The error w() evaluates to for the closure of caller c.
ClosureResult(c) == fnRes[c]

\* w() returns.
RunCallReturn(l) ==
    /\ panic = "none" /\ runPc[l] = "incall"
    /\ runRes' = [runRes EXCEPT ![l] = ClosureResult(runW[l])]
    /\ runErrCh' = [runErrCh EXCEPT ![l] = IF @ = "unread" THEN errChan ELSE @]
    /\ runPc' = [runPc EXCEPT ![l] = "send"]
    /\ executing' = executing \ {runW[l]}
    /\ UNCHANGED <<ctorVars, ctxVars, panic, runArg, argClosed, waitRes, runRet,
                   current, runWorkCh, runW, doVars, closeVars, log, recvOrder,
                   doAfterClose, closeAfterClose, closeOverlap, destroyCount>>

\* The Do calls whose receive can take the run loop's send.
Receivers(l) ==
    {c \in Callers : /\ runErrCh[l] = "ch" /\ ~errClosed
                     /\ doPc[c] = "recvErr" /\ doErrCh[c] = "ch"}

\* A run loop that posts the result and calls the closure again when it
\* returned an error.
MutRunSend(l) ==
    /\ panic = "none" /\ runPc[l] = "send"
    /\ \E c \in Receivers(l) :
        /\ doRet' = [doRet EXCEPT ![c] = runRes[l]]
        /\ doPc' = [doPc EXCEPT ![c] = "returned"]
        /\ doErrCh' = [doErrCh EXCEPT ![c] = "unread"]
    /\ runPc' = [runPc EXCEPT ![l] = IF runRes[l] # NilErr THEN "call" ELSE "top"]
    /\ runW' = [runW EXCEPT ![l] = IF runRes[l] # NilErr THEN @ ELSE NilFunc]
    /\ runRes' = [runRes EXCEPT ![l] = NilErr]
    /\ runErrCh' = [runErrCh EXCEPT ![l] = "unread"]
    /\ UNCHANGED <<ctorVars, ctxVars, panic, runArg, argClosed, waitRes, runRet,
                   current, runWorkCh, doWorkCh, fnRes, sendq, closeVars,
                   histVars>>

\* ctx.errChan <- w(), second part: the send meets a Do call's receive.
RunSend(l) ==
    /\ panic = "none" /\ runPc[l] = "send"
    /\ \E c \in Receivers(l) :
        /\ doRet' = [doRet EXCEPT ![c] = runRes[l]]
        /\ doPc' = [doPc EXCEPT ![c] = "returned"]
        /\ doErrCh' = [doErrCh EXCEPT ![c] = "unread"]
    /\ runPc' = [runPc EXCEPT ![l] = "top"]
    /\ runW' = [runW EXCEPT ![l] = NilFunc]
    /\ runRes' = [runRes EXCEPT ![l] = NilErr]
    /\ runErrCh' = [runErrCh EXCEPT ![l] = "unread"]
    /\ UNCHANGED <<ctorVars, ctxVars, panic, runArg, argClosed, waitRes, runRet,
                   current, runWorkCh, doWorkCh, fnRes, sendq, closeVars,
                   histVars>>

\* The send finds the result channel closed.
RunSendClosed(l) ==
    /\ panic = "none" /\ runPc[l] = "send"
    /\ runErrCh[l] = "ch" /\ errClosed
    /\ panic' = "Run: send on closed channel"
    /\ UNCHANGED <<ctorVars, ctxVars, runVars, doVars, closeVars, histVars>>

(***************************************************************************)
(* Do                                                                      *)
(***************************************************************************)

\* Whether some Close call is past its first test, and whether one has returned.
CloseInProgress == \E k \in Closers : closePc[k] \notin {"idle", "returned"}
CloseReturned == \E k \in Closers : closePc[k] = "returned"
CloseInvoked == \E k \in Closers : closePc[k] # "idle"

\* Do(fn) begins: ctx.work is evaluated and the send ctx.work <- fn starts.
\* r is the error fn returns.  Do calls are numbered in the order they begin.
Do(c, r) ==
    /\ panic = "none" /\ ctorPc = "returned"
    /\ doPc[c] = "idle" /\ Started < MaxGoroutines
    /\ \A d \in Callers : d < c => doPc[d] # "idle"
    /\ doPc' = [doPc EXCEPT ![c] = "sendWork"]
    /\ doWorkCh' = [doWorkCh EXCEPT ![c] = work]
    /\ fnRes' = [fnRes EXCEPT ![c] = r]
    /\ sendq' = IF work = "ch" THEN Append(sendq, c) ELSE sendq
    /\ doAfterClose' = [doAfterClose EXCEPT ![c] = CloseReturned]
    /\ UNCHANGED <<ctorVars, ctxVars, panic, runVars, doErrCh, doRet, closeVars, log,
                   recvOrder, executing, closeAfterClose, closeOverlap, destroyCount>>

\* The send finds the work channel closed.
DoSendClosed(c) ==
    /\ panic = "none" /\ doPc[c] = "sendWork"
    /\ doWorkCh[c] = "ch" /\ workClosed
    /\ panic' = "Do: send on closed channel"
    /\ UNCHANGED <<ctorVars, ctxVars, runVars, doVars, closeVars, histVars>>

\* return <-ctx.errChan: the operand ctx.errChan is evaluated.
DoReadErrChan(c) ==
    /\ panic = "none" /\ doPc[c] = "sent"
    /\ doErrCh' = [doErrCh EXCEPT ![c] = errChan]
    /\ doPc' = [doPc EXCEPT ![c] = "recvErr"]
    /\ UNCHANGED <<ctorVars, ctxVars, panic, runVars, doWorkCh, doRet, fnRes, sendq,
                   closeVars, histVars>>

\* The receive finds the result channel closed and yields the zero value.
DoRecvClosed(c) ==
    /\ panic = "none" /\ doPc[c] = "recvErr"
    /\ doErrCh[c] = "ch" /\ errClosed
    /\ doRet' = [doRet EXCEPT ![c] = NilErr]
    /\ doPc' = [doPc EXCEPT ![c] = "returned"]
    /\ doErrCh' = [doErrCh EXCEPT ![c] = "unread"]
    /\ UNCHANGED <<ctorVars, ctxVars, panic, runVars, doWorkCh, fnRes, sendq,
                   closeVars, histVars>>

(***************************************************************************)
(* Close (debug build)                                                     *)
(***************************************************************************)

\* A Close without the test of the handle.
MutHandleEmpty == FALSE

\* ctx.CUContext.ctx == empty
HandleEmpty == handle = "empty"

\* Close begins: the test of the handle; return nil when it is empty.
\* Close calls are numbered in the order they begin.
Close(k) ==
    /\ panic = "none" /\ ctorPc = "returned"
    /\ closePc[k] = "idle" /\ Started < MaxGoroutines
    /\ \A j \in Closers : j < k => closePc[j] # "idle"
    /\ closePc' = [closePc EXCEPT ![k] = IF HandleEmpty THEN "returned" ELSE "errChan"]
    /\ closeAfterClose' = [closeAfterClose EXCEPT ![k] = CloseReturned]
    /\ closeOverlap' = (closeOverlap \/ CloseInProgress)
    /\ UNCHANGED <<ctorVars, ctxVars, panic, runVars, doVars, closeErr, log,
                   recvOrder, executing, doAfterClose, destroyCount>>

\* if ctx.errChan != nil { close(ctx.errChan)
CloseErrChan(k) ==
    /\ panic = "none" /\ closePc[k] = "errChan"
    /\ IF errChan = "nil"
       THEN /\ closePc' = [closePc EXCEPT ![k] = "work"]
            /\ UNCHANGED <<errClosed, panic>>
       ELSE IF errClosed
       THEN panic' = "Close: close of closed channel" /\ UNCHANGED <<errClosed, closePc>>
       ELSE /\ errClosed' = TRUE
            /\ closePc' = [closePc EXCEPT ![k] = "errChanNil"]
            /\ UNCHANGED panic
    /\ UNCHANGED <<ctorVars, handle, work, errChan, workClosed, runVars, doVars,
                   closeErr, histVars>>

\* ctx.errChan = nil }
CloseErrChanNil(k) ==
    /\ panic = "none" /\ closePc[k] = "errChanNil"
    /\ errChan' = "nil"
    /\ closePc' = [closePc EXCEPT ![k] = "work"]
    /\ UNCHANGED <<ctorVars, handle, work, workClosed, errClosed, panic, runVars,
                   doVars, closeErr, histVars>>

\* if ctx.work != nil { close(ctx.work)
CloseWork(k) ==
    /\ panic = "none" /\ closePc[k] = "work"
    /\ IF work = "nil"
       THEN /\ closePc' = [closePc EXCEPT ![k] = "destroy"]
            /\ UNCHANGED <<workClosed, panic>>
       ELSE IF workClosed
       THEN panic' = "Close: close of closed channel" /\ UNCHANGED <<workClosed, closePc>>
       ELSE /\ workClosed' = TRUE
            /\ closePc' = [closePc EXCEPT ![k] = "workNil"]
            /\ UNCHANGED panic
    /\ UNCHANGED <<ctorVars, handle, work, errChan, errClosed, runVars, doVars,
                   closeErr, histVars>>

\* ctx.work = nil }
CloseWorkNil(k) ==
    /\ panic = "none" /\ closePc[k] = "workNil"
    /\ work' = "nil"
    /\ closePc' = [closePc EXCEPT ![k] = "destroy"]
    /\ UNCHANGED <<ctorVars, handle, errChan, workClosed, errClosed, panic, runVars,
                   doVars, closeErr, histVars>>

\* A Close that returns a destroy error before it marks the handle released.
MutCloseDestroy(k, ok) ==
    /\ panic = "none" /\ closePc[k] = "destroy"
    /\ closeErr' = [closeErr EXCEPT ![k] = IF ok THEN NilErr ELSE NativeErr]
    /\ destroyCount' = destroyCount + 1
    /\ handle' = IF ok THEN "empty" ELSE handle
    /\ closePc' = [closePc EXCEPT ![k] = "returned"]
    /\ UNCHANGED <<ctorVars, work, errChan, workClosed, errClosed, panic, runVars,
                   doVars, log, recvOrder, executing, doAfterClose, closeAfterClose,
                   closeOverlap>>

\* err := result(C.cuCtxDestroy(...)), which succeeds or fails;
\* ctx.CUContext.ctx = empty; return err.  Close tests the handle only in its
\* first statement, so the call and the write are one step.
CloseDestroy(k, ok) ==
    /\ panic = "none" /\ closePc[k] = "destroy"
    /\ closeErr' = [closeErr EXCEPT ![k] = IF ok THEN NilErr ELSE NativeErr]
    /\ destroyCount' = destroyCount + 1
    /\ handle' = "empty"
    /\ closePc' = [closePc EXCEPT ![k] = "returned"]
    /\ UNCHANGED <<ctorVars, work, errChan, workClosed, errClosed, panic, runVars,
                   doVars, log, recvOrder, executing, doAfterClose, closeAfterClose,
                   closeOverlap>>

(***************************************************************************)
(* The program                                                             *)
(***************************************************************************)

Next ==
    \/ \E ok \in BOOLEAN : NewContext(ok)
    \/ NewContextReturn
    \/ \E ok \in BOOLEAN : NewManuallyManagedContext(ok)
    \/ CtxFromCUContext
    \/ \E l \in Loops, arg \in {"nil", "ch"} : Run(l, arg)
    \/ \E l \in Loops, ok \in BOOLEAN : RunSetCurrent(l, ok)
    \/ \E l \in Loops : RunReport(l)
    \/ \E l \in Loops : RunCloseArg(l)
    \/ \E l \in Loops : RunSelectRead(l)
    \/ \E l \in Loops : RunSelect(l)
    \/ \E l \in Loops, early \in BOOLEAN : RunCall(l, early)
    \/ \E l \in Loops : RunCallReturn(l)
    \/ \E l \in Loops : RunSend(l)
    \/ \E l \in Loops : RunSendClosed(l)
    \/ \E c \in Callers : \E r \in {NilErr, Err(c)} : Do(c, r)
    \/ \E c \in Callers : DoSendClosed(c)
    \/ \E c \in Callers : DoReadErrChan(c)
    \/ \E c \in Callers : DoRecvClosed(c)
    \/ \E k \in Closers : Close(k)
    \/ \E k \in Closers : CloseErrChan(k)
    \/ \E k \in Closers : CloseErrChanNil(k)
    \/ \E k \in Closers : CloseWork(k)
    \/ \E k \in Closers : CloseWorkNil(k)
    \/ \E k \in Closers, ok \in BOOLEAN : CloseDestroy(k, ok)

Spec == Init /\ [][Next]_vars

(***************************************************************************)
(* One run loop, callers that call Do again and again, no Close            *)
(***************************************************************************)

\* A goroutine whose Do call has returned calls Do again; r is the error the
\* new closure returns.  The records of the call that returned are dropped.
DoAgain(c, r) ==
    /\ panic = "none" /\ doPc[c] = "returned"
    /\ doPc' = [doPc EXCEPT ![c] = "sendWork"]
    /\ doWorkCh' = [doWorkCh EXCEPT ![c] = work]
    /\ fnRes' = [fnRes EXCEPT ![c] = r]
    /\ doRet' = [doRet EXCEPT ![c] = NilErr]
    /\ sendq' = IF work = "ch" THEN Append(sendq, c) ELSE sendq
    /\ log' = Remove(log, c)
    /\ recvOrder' = Remove(recvOrder, c)
    /\ UNCHANGED <<ctorVars, ctxVars, panic, runVars, doErrCh, closeVars, executing,
                   doAfterClose, closeAfterClose, closeOverlap, destroyCount>>

\* A receive that wakes any of the blocked senders.
MutRunSelectFIFO(l) == RunSelect(l)

\* w := <-ctx.work when the channel wakes its blocked senders in the order
\* they blocked: the receive takes the value of the first one.
RunSelectFIFO(l) == RunSelect(l) /\ runW'[l] = Head(sendq)

\* The steps of the goroutine of run loop l once Run has been called.
LoopStep(l) ==
    \/ \E ok \in BOOLEAN : RunSetCurrent(l, ok)
    \/ RunReport(l)
    \/ RunCloseArg(l)
    \/ RunSelectRead(l)
    \/ RunSelectFIFO(l)
    \/ \E early \in BOOLEAN : RunCall(l, early)
    \/ RunCallReturn(l)
    \/ RunSend(l)

ProgressNext ==
    \/ \E ok \in BOOLEAN : NewContext(ok)
    \/ NewContextReturn
    \/ \E ok \in BOOLEAN : NewManuallyManagedContext(ok)
    \/ CtxFromCUContext
    \/ \E arg \in {"nil", "ch"} : Run(1, arg)
    \/ LoopStep(1)
    \/ \E c \in Callers : \E r \in {NilErr, Err(c)} : Do(c, r)
    \/ \E c \in Callers : DoReadErrChan(c)
    \/ \E c \in Callers : \E r \in {NilErr, Err(c)} : DoAgain(c, r)

\* Fair scheduling: the goroutine of the run loop, and each goroutine inside
\* Do, takes its next step when that step stays possible.
ProgressSpec ==
    /\ Init /\ [][ProgressNext]_vars
    /\ WF_vars(LoopStep(1))
    /\ \A c \in Callers : WF_vars(DoReadErrChan(c))

(***************************************************************************)
(* Properties                                                              *)
(***************************************************************************)

\* At most one invocation of Run has been made on the Ctx.
OneLoop == Cardinality({l \in Loops : runPc[l] # "idle"}) <= 1

Range(q) == {q[i] : i \in 1..Len(q)}

\* Caller c's closure has been called and has returned.
Finished(c) == c \in Range(log) /\ c \notin executing

\* C1: with one run loop and no Close, a Do call that has returned did so
\* after its own closure finished, and returned exactly the error that its own
\* closure returned (nil included).
DoReturnsOwnResult ==
    (OneLoop /\ ~CloseInvoked) =>
        \A c \in Callers :
            doPc[c] = "returned" => Finished(c) /\ doRet[c] = fnRes[c]

\* Two concurrent Do calls have both returned, one with its closure's error
\* and one with nil.
DoReturnsOwnResultWitness ==
    /\ OneLoop /\ ~CloseInvoked
    /\ \A c \in {1, 2} : doPc[c] = "returned"
    /\ recvOrder = <<2, 1>>
    /\ doRet[1] = Err(1) /\ doRet[2] = NilErr /\ fnRes[2] = NilErr

IsPrefix(p, q) == Len(p) <= Len(q) /\ \A i \in 1..Len(p) : p[i] = q[i]

BlockedForever(c) ==
    \/ doPc[c] = "sendWork" /\ doWorkCh[c] = "nil"
    \/ doPc[c] = "recvErr" /\ doErrCh[c] = "nil"

\* C3: a Do call begun after a Close call has returned does not block for
\* ever, and its closure is not executed.
ClosedStateRejection ==
    \A c \in Callers :
        doAfterClose[c] => ~BlockedForever(c) /\ c \notin Range(log)

\* C4: with one run loop, a Do call whose closure the loop has received
\* returns nil only when its closure has finished and returned nil, does not
\* block for ever, and the run loop does not panic sending its result.
InFlightDoSafe ==
    OneLoop =>
        /\ \A c \in Range(recvOrder) :
            /\ (doPc[c] = "returned" /\ doRet[c] = NilErr)
                   => (Finished(c) /\ fnRes[c] = NilErr)
            /\ ~BlockedForever(c)
        /\ panic # "Run: send on closed channel"

\* C5: a run loop never calls the nil func read from the closed work channel,
\* never panics, and is never left in a select whose channels are all nil.
CloseStopsRunLoop ==
    /\ panic \notin {"Run: call of nil func", "Run: send on closed channel"}
    /\ \A l \in Loops :
        /\ ~(runPc[l] = "call" /\ runW[l] = NilFunc)
        /\ ~(runPc[l] = "select" /\ runWorkCh[l] = "nil" /\ done = "nil")

\* C6: as long as no two Close calls have overlapped, cuCtxDestroy has been
\* called at most once, no channel has been closed twice, and a Close call
\* begun after a Close call returned has returned nil at once, without
\* entering the statements that close, destroy or write.
IdempotentClose ==
    ~closeOverlap =>
        /\ destroyCount <= 1
        /\ panic # "Close: close of closed channel"
        /\ \A k \in Closers :
            closeAfterClose[k] => closePc[k] = "returned" /\ closeErr[k] = NilErr

\* Two Close calls one after the other, the first of which destroyed the
\* context.
IdempotentCloseWitness ==
    /\ ~closeOverlap
    /\ closePc[1] = "returned" /\ closePc[2] = "returned"
    /\ closeAfterClose[2]
    /\ destroyCount = 1 /\ handle = "empty"

\* The positions of Run inside its for loop.
ServingPcs == {"top", "select", "call", "incall", "send"}

\* C7: every Run whose SetCurrentContext succeeded reaches the loop without a
\* panic, with its completion channel, if it was given one, closed.
ActivationSuccess ==
    /\ panic # "Run: close of nil channel"
    /\ \A l \in Loops :
        (runPc[l] \in ServingPcs /\ runArg[l] = "ch") => argClosed[l]

\* Run is past SetCurrentContext, which failed.
ActivationFailed(l) == runPc[l] \notin {"idle", "setcurrent"} /\ ~current[l]

\* C8: a Run whose SetCurrentContext failed is never in the loop and never
\* holds a closure; it reports the error once, by the send on its completion
\* channel (and then returns nil) or by its return value; no error is reported
\* when SetCurrentContext succeeded; NewContext does not return the Ctx, and
\* when it panics with the error the Run it started has returned.
ActivationFailure ==
    \A l \in Loops :
        /\ ActivationFailed(l) =>
            /\ runPc[l] \in {"report", "returned"}
            /\ runW[l] = NilFunc
            /\ runPc[l] = "report" =>
                   runArg[l] = "ch" /\ waitRes[l] = "pending" /\ runRet[l] = "none"
            /\ runPc[l] = "returned" =>
                   \/ runArg[l] = "ch" /\ waitRes[l] = "err" /\ runRet[l] = "nil"
                   \/ runArg[l] = "nil" /\ waitRes[l] = "none" /\ runRet[l] = "err"
            /\ (kind = "auto" /\ l = 1) =>
                   /\ ctorPc # "returned"
                   /\ panic = "activation" => runPc[l] = "returned"
        /\ (waitRes[l] = "err" \/ runRet[l] = "err") => ActivationFailed(l)
        /\ panic = "activation" => ActivationFailed(1)

\* NewContext has panicked with the error of SetCurrentContext.
ActivationFailureWitness ==
    /\ kind = "auto" /\ panic = "activation"
    /\ ActivationFailed(1) /\ runPc[1] = "returned" /\ waitRes[1] = "err"

\* C9: when NewContext has returned, the Run it started has made the context
\* current, and every closure that executes does so on a loop whose thread has
\* the context current.
AutoRunReturnsAfterCurrent ==
    kind = "auto" =>
        /\ ctorPc = "returned" => current[1]
        /\ \A l \in Loops : runPc[l] \in {"call", "incall", "send"} => current[l]

\* A closure submitted after NewContext returned is executing.
AutoRunReturnsAfterCurrentWitness ==
    /\ kind = "auto" /\ ctorPc = "returned" /\ OneLoop
    /\ executing = {1} /\ runPc[1] = "incall"

\* Once SetCurrentContext has succeeded, with one Run and no Close, the
\* program has not panicked.
ServesAfterActivation ==
    (OneLoop /\ ~CloseInvoked /\ \E l \in Loops : current[l]) => panic = "none"

\* C10: an executor whose Run the caller started serves as one built by
\* NewContext does.
ManualRunEquivalence == kind = "manual" => ServesAfterActivation

\* What C10 compares with: the executor built by NewContext.
AutoServesAfterActivation == kind = "auto" => ServesAfterActivation

\* C11: with one run loop, no closure is called twice; when the loop has
\* received a further task, every closure received before it has been called,
\* has returned, and its result has been posted to its own Do call, which has
\* returned with it, errors included; and as long as Close has not been
\* called, a loop that has received tasks has not panicked and is still in
\* its for loop.
OneResultPerTask ==
    OneLoop =>
        /\ \A i, j \in 1..Len(log) : log[i] = log[j] => i = j
        /\ \A i \in 1..(Len(recvOrder) - 1) :
            LET c == recvOrder[i] IN
                /\ Finished(c)
                /\ doPc[c] = "returned" /\ doRet[c] = fnRes[c]
        /\ (~CloseInvoked /\ recvOrder # <<>>) =>
            /\ panic = "none"
            /\ \A l \in Loops : runPc[l] # "idle" => runPc[l] \in ServingPcs

\* The first closure returned an error, which its Do call got, and the loop
\* is executing the next one.
OneResultPerTaskWitness ==
    /\ OneLoop
    /\ recvOrder = <<1, 2>> /\ log = <<1, 2>>
    /\ fnRes[1] = Err(1) /\ doPc[1] = "returned" /\ doRet[1] = Err(1)
    /\ executing = {2}

\* C12: a Close whose native destroy failed has returned that error and has
\* left the handle empty; every Close that began after a Close had returned
\* returns nil at once, and when no two Close calls overlapped the destroy
\* was called exactly once.
DestructionFailure ==
    \A k \in Closers :
        closeErr[k] = NativeErr =>
            /\ closePc[k] = "returned"
            /\ handle = "empty"
            /\ \A j \in Closers :
                (closeAfterClose[j] /\ closePc[j] # "idle") =>
                    closePc[j] = "returned" /\ closeErr[j] = NilErr
            /\ ~closeOverlap => destroyCount = 1

\* The first Close returned the destroy error; the second one, called
\* afterwards, returned nil without a second destroy.
DestructionFailureWitness ==
    /\ closePc[1] = "returned" /\ closeErr[1] = NativeErr
    /\ closeAfterClose[2] /\ closePc[2] = "returned" /\ closeErr[2] = NilErr
    /\ destroyCount = 1

\* C13: at most one Run invocation is in the serving loop of the executor,
\* whatever constructors and Run calls were made.
OneDedicatedThread ==
    Cardinality({l \in Loops : runPc[l] \in ServingPcs}) <= 1

\* The OS thread of each goroutine: Run locks its goroutine to its thread
\* with runtime.LockOSThread, Close runs on the thread of its caller.
LoopThread(l) == <<"Run", l>>
CloserThread(k) == <<"Close", k>>
\* The threads that Run has locked and made the context current on.
DedicatedThreads ==
    {LoopThread(l) : l \in {m \in Loops : runPc[m] \notin {"idle", "returned"}}}
\* The threads that are at a native call on the handle: SetCurrentContext,
\* a closure, cuCtxDestroy.
NativeCallers ==
    {LoopThread(l) : l \in {m \in Loops : runPc[m] \in {"setcurrent", "incall"}}}
    \cup {CloserThread(k) : k \in {j \in Closers : closePc[j] = "destroy"}}

\* C14: every thread at a native operation on the handle, the destroy of
\* Close included, is a thread that Run has dedicated to the executor.
Confinement == NativeCallers \subseteq DedicatedThreads

\* C15: while no Run has been invoked, no Do call is waiting at its send: a
\* Do on an executor that was never started has returned.
UnstartedDoRejected ==
    (\A l \in Loops : runPc[l] = "idle") =>
        \A c \in Callers : doPc[c] \in {"idle", "returned"}

\* The field ctx.err: nil from newContext's literal, assigned nowhere.
err == NilErr
\* Error() returns the field.
Error == err

\* C16: after a Close has returned the error of a failed destroy, Error()
\* returns that error.
LastErrorRecorded ==
    \A k \in Closers :
        (closePc[k] = "returned" /\ closeErr[k] # NilErr) => Error = closeErr[k]

\* C17: however Close calls overlap, the destroy is called at most once and
\* no Close closes a channel that is already closed.
ConcurrentCloseSafe ==
    /\ destroyCount <= 1
    /\ panic # "Close: close of closed channel"

\* C18: no closure is executing when Close is at its destroy call or after
\* the destroy has been called.
NoDestroyUnderTask ==
    ((\E k \in Closers : closePc[k] = "destroy") \/ destroyCount > 0) =>
        executing = {}

\* The executor is Running: a run loop is in its for loop.
Running == panic = "none" /\ \E l \in Loops : runPc[l] \in ServingPcs

\* Do call c has begun and has not returned.
Pending(c) == doPc[c] \in {"sendWork", "sent", "recvErr"}

\* C19: with one run loop, no Close, and callers that call Do again and
\* again: whenever the executor is Running and a Do call is pending, the
\* run loop or a caller can take a step; and with fair scheduling and
\* blocked senders woken in the order they blocked, every pending Do call
\* on a Running executor eventually returns.
Progress ==
    /\ [](Running /\ (\E c \in Callers : Pending(c)) =>
            ENABLED (LoopStep(1) \/ \E c \in Callers : DoReadErrChan(c)))
    /\ \A c \in Callers : (Running /\ Pending(c)) ~> doPc[c] = "returned"

\* Call 1 has been served and has returned, and its caller has called Do
\* again while call 2 was still blocked at its send: it waits behind call 2.
ProgressWitness ==
    /\ Running
    /\ sendq = <<2, 1>>

====
